---- MODULE Spec2Model ----
(***************************************************************************)
(* Parallax controller (src/unnamed/part_000) and ScrollIndicator          *)
(* (src/scripts/controllers/ScrollIndicator.js) as state machines: Spec    *)
(* runs the first with the second left as constructed, SpecIndicator the   *)
(* second with the first left as constructed.                              *)
(*                                                                         *)
(* The page holds NItems original nodes, numbered in document order; node  *)
(* n carries data-parallax-id n and the overlay host may hold a slot with  *)
(* the same id.  Lengths are in layout units; a transform is kept as the   *)
(* function name and its argument written as the fraction num/den.         *)
(***************************************************************************)
EXTENDS Integers, Sequences, FiniteSets, TLC

\* ------------------------------------------------------------ bounds
NItems == 2
MaxScroll == 1
MaxLayout == 1
MaxRaf == 2
MaxRemoved == 1
InnerHeight == 1

\* ------------------------------------------------------------ constants
parallaxOffset == 500
\* JS undefined (a field never assigned) and null (querySelector found nothing)
Undefined == -1
Null == 0

Nodes == 1..NItems
TweakValues == {"true", "false"}
ModuleListeners ==
  {"scroll", "resizeEnd", "tweakWatch",
   "indexEditEnabled", "indexEditDisabled", "indexEditDeleted", "indexEditReorder"}

\* ------------------------------------------------------------ values
NoTransform == [kind |-> "none", num |-> 0, den |-> 1]
NoBox == [top |-> Undefined, left |-> Undefined, width |-> Undefined, height |-> Undefined]

\* The page-relative box of original node n in layout version v: version 1
\* widens every node, later versions also push the nodes down.
BoxOf(v, n) ==
  [top |-> (n - 1) + (v \div 2), left |-> n - 1,
   width |-> 2 + (v % 2), height |-> 1]

\* data-image-focal-point of node n's media element: absent (<<>>) or the
\* two coordinates "x,y", each a fraction.
FocalAttr(n) ==
  IF n % 3 = 1 THEN <<>>
  ELSE IF n % 3 = 2 THEN << [num |-> 1, den |-> 2], [num |-> 1, den |-> 1] >>
  ELSE << [num |-> 1, den |-> 2], [num |-> 0, den |-> 1] >>

VARIABLES
  matrix,          \* the tracked items, in scan order
  windowHeight,    \* cached window.innerHeight
  scrolling, scrollTimeout, isEditingIndex, darwin,
  rafScroll,       \* outstanding requestAnimationFrame(scrollCallback)
  rafSync,         \* requestAnimationFrame(syncParallax) of init outstanding
  listeners,       \* callbacks of the module still registered with the page
  tweakValue,      \* Tweak.getValue('tweak-overlay-parallax-enabled')
  scrollY,         \* window.pageYOffset = documentElement.scrollTop
  layoutVer,       \* current layout of the page
  contained,       \* element.contains(originalNode)
  hostSlots,       \* ids of the slots that are children of the overlay host
  wrapperParent,   \* parent of each mediaWrapper
  slotStyle, slotTransform, mediaTransform, wrapperTop, loaded,
  pointerEvents,   \* document.documentElement.style.pointerEvents
  op,              \* what the last step ran: "scroll", "syncParallax" or neither
  threw,           \* it ended in an uncaught TypeError
  enabledResult,   \* what isParallaxEnabled() returned to it last, if it was called
  imageLoads,      \* how many times it called loadImage
  scrollCalls      \* how many times it called scroll

vars ==
  << matrix, windowHeight, scrolling, scrollTimeout, isEditingIndex, darwin,
     rafScroll, rafSync, listeners, tweakValue, scrollY, layoutVer,
     contained, hostSlots, wrapperParent, slotStyle, slotTransform,
     mediaTransform, wrapperTop, loaded, pointerEvents, op, threw,
     enabledResult, imageLoads, scrollCalls >>

\* ScrollIndicator
VARIABLES
  hidden,              \* element.classList.contains('hidden')
  showTimeout,         \* "null", or the timer it names is "pending" or has "fired"
  hideTimeout,
  bottomEdge,
  elementBottom,       \* page-relative bottom of the element in the current layout
  indicatorListeners,  \* callbacks of ScrollIndicator still registered
  jumpTarget,          \* target of the last jump(), if any
  lastSeen,            \* the last scroll event handled: its offset and its case
  indicatorOp          \* the handler of ScrollIndicator the last step ran

indicatorVars ==
  << hidden, showTimeout, hideTimeout, bottomEdge, elementBottom,
     indicatorListeners, jumpTarget, lastSeen, indicatorOp >>

\* the Parallax variables but window.pageYOffset
parallaxVars ==
  << matrix, windowHeight, scrolling, scrollTimeout, isEditingIndex, darwin,
     rafScroll, rafSync, listeners, tweakValue, layoutVer,
     contained, hostSlots, wrapperParent, slotStyle, slotTransform,
     mediaTransform, wrapperTop, loaded, pointerEvents, op, threw,
     enabledResult, imageLoads, scrollCalls >>

allVars == << vars, indicatorVars >>

\* ------------------------------------------------------------ isParallaxEnabled
isParallaxEnabledStale(editing, tweak) == tweak = "true"

isParallaxEnabled(editing, tweak) == IF editing THEN FALSE ELSE tweak = "true"

\* ------------------------------------------------------------ initParallax
initParallax ==
  [n \in Nodes |->
    [originalNode |-> n, mediaWrapper |-> n, mediaElement |-> n,
     focalPoint |-> IF FocalAttr(n) = <<>> THEN [num |-> 1, den |-> 2]
                    ELSE FocalAttr(n)[2],
     parallaxItem |-> Undefined,
     top |-> Undefined, right |-> Undefined, bottom |-> Undefined,
     left |-> Undefined, width |-> Undefined, height |-> Undefined]]

\* ------------------------------------------------------------ geometry
\* getBoundingClientRect (viewport-relative) and offsetWidth/offsetHeight of
\* an original node; a node that left the document has no box.
Measure(n) ==
  IF contained[n]
  THEN LET b == BoxOf(layoutVer, n) IN
       [top |-> b.top - scrollY, bottom |-> b.top + b.height - scrollY,
        left |-> b.left, right |-> b.left + b.width,
        offsetWidth |-> b.width, offsetHeight |-> b.height]
  ELSE [top |-> 0, bottom |-> 0, left |-> 0, right |-> 0,
        offsetWidth |-> 0, offsetHeight |-> 0]

currentDims(item) ==
  LET rect == Measure(item.originalNode) IN
  [top |-> rect.top + scrollY, left |-> rect.left,
   width |-> rect.offsetWidth, height |-> rect.offsetHeight]

updateMatrixItemTopOnly(item) ==
  LET rect == Measure(item.originalNode)
      cur == currentDims(item)
  IN IF item.top # cur.top
     THEN [item |-> [item EXCEPT !.top = cur.top, !.right = rect.right,
                                 !.bottom = rect.bottom + scrollY,
                                 !.left = cur.left, !.width = cur.width,
                                 !.height = cur.height],
           ret |-> TRUE]
     ELSE [item |-> item, ret |-> FALSE]

updateMatrixItem(item) ==
  LET rect == Measure(item.originalNode)
      cur == currentDims(item)
  IN IF \/ item.top # cur.top \/ item.left # cur.left
        \/ item.width # cur.width \/ item.height # cur.height
     THEN [item |-> [item EXCEPT !.top = cur.top, !.right = rect.right,
                                 !.bottom = rect.bottom + scrollY,
                                 !.left = cur.left, !.width = cur.width,
                                 !.height = cur.height],
           ret |-> TRUE]
     ELSE [item |-> item, ret |-> FALSE]

updateAllMatrixItems(m) ==
  [matrix |-> [i \in DOMAIN m |-> updateMatrixItem(m[i]).item],
   didUpdate |-> \E i \in DOMAIN m : updateMatrixItem(m[i]).ret]

\* ------------------------------------------------------------ handler state
\* What a handler reads and writes, threaded through its statements; threw
\* is set when a statement raises, which ends the handler on the spot.
OriginalParent(n) == [kind |-> "originalNode", id |-> n]
OverlayParent(k) == [kind |-> "parallaxItem", id |-> k]
Falsy(ref) == ref \in {Undefined, Null}
Returned(b) == IF b THEN "true" ELSE "false"

Entry ==
  [matrix |-> matrix, windowHeight |-> windowHeight,
   isEditingIndex |-> isEditingIndex, hostSlots |-> hostSlots,
   wrapperParent |-> wrapperParent, slotStyle |-> slotStyle,
   slotTransform |-> slotTransform, mediaTransform |-> mediaTransform,
   wrapperTop |-> wrapperTop, loaded |-> loaded,
   threw |-> FALSE, enabledResult |-> "not called",
   imageLoads |-> 0, scrollCalls |-> 0]

\* ------------------------------------------------------------ scroll
InView(item, scrollTop, wh) ==
  /\ wh # Undefined /\ item.top # Undefined /\ item.bottom # Undefined
  /\ scrollTop + wh > item.top
  /\ scrollTop < item.bottom

\* translatey(parallaxProportion * parallaxOffset), with
\* parallaxProportion = 1 - ((top + height * focalPoint - scrollTop) / windowHeight)
elementTransformClamped(item, scrollTop, wh) ==
  LET fp == item.focalPoint
      pNum == wh * fp.den - (item.top * fp.den + item.height * fp.num - scrollTop * fp.den)
      pDen == wh * fp.den
  IN [kind |-> "translatey",
      num |-> parallaxOffset * (IF pNum > pDen THEN pDen ELSE pNum),
      den |-> pDen]

elementTransform(item, scrollTop, wh) ==
  LET fp == item.focalPoint IN
  [kind |-> "translatey",
   num |-> parallaxOffset *
           (wh * fp.den - (item.top * fp.den + item.height * fp.num - scrollTop * fp.den)),
   den |-> wh * fp.den]

inViewItemTransform(scrollTop) ==
  [kind |-> "translatey", num |-> -1 * scrollTop, den |-> 1]

outOfRangeTransform(item) ==
  [kind |-> "translate3d", num |-> -1 * item.width - item.left, den |-> 1]

RECURSIVE scrollForEach(_, _, _)
scrollForEach(S, i, scrollTop) ==
  IF i > Len(S.matrix) THEN S
  ELSE
    LET item == S.matrix[i]
        parallaxItem == item.parallaxItem
    IN IF InView(item, scrollTop, S.windowHeight)
       THEN LET S1 == [S EXCEPT !.mediaTransform[item.mediaElement] =
                                   elementTransform(item, scrollTop, S.windowHeight)]
            IN IF Falsy(parallaxItem) THEN [S1 EXCEPT !.threw = TRUE]
               ELSE scrollForEach(
                      [S1 EXCEPT !.slotTransform[parallaxItem] = inViewItemTransform(scrollTop)],
                      i + 1, scrollTop)
       ELSE IF Falsy(parallaxItem) THEN [S EXCEPT !.threw = TRUE]
            ELSE scrollForEach(
                   [S EXCEPT !.slotTransform[parallaxItem] = outOfRangeTransform(item)],
                   i + 1, scrollTop)

scrollUnguarded(S, scrollTopArg, docTop) ==
  LET scrollTop == IF scrollTopArg # 0 THEN scrollTopArg ELSE docTop
      en == isParallaxEnabled(S.isEditingIndex, tweakValue)
  IN scrollForEach([S EXCEPT !.enabledResult = Returned(en),
                             !.scrollCalls = @ + 1], 1, scrollTop)

\* scroll(scrollTop), called while document.documentElement.scrollTop is docTop
scroll(S, scrollTopArg, docTop) ==
  LET scrollTop == IF scrollTopArg # 0 THEN scrollTopArg ELSE docTop
      en == isParallaxEnabled(S.isEditingIndex, tweakValue)
      S0 == [S EXCEPT !.enabledResult = Returned(en), !.scrollCalls = @ + 1]
  IN IF ~en THEN S0 ELSE scrollForEach(S0, 1, scrollTop)

\* ------------------------------------------------------------ syncParallax
itemBox(item) ==
  [top |-> item.top, left |-> item.left, width |-> item.width, height |-> item.height]

\* the enabled branch for one item
relocateDropRecord(S, i) ==
  LET item == S.matrix[i]
      n == item.originalNode
      w == item.mediaWrapper
      atHome == S.wrapperParent[w] = OriginalParent(n)
      found == IF n \in S.hostSlots THEN n ELSE Null
      parallaxItem == IF atHome THEN found ELSE item.parallaxItem
  IN IF Falsy(parallaxItem) THEN [S EXCEPT !.threw = TRUE]
     ELSE [S EXCEPT !.wrapperParent[w] = OverlayParent(parallaxItem),
                    !.slotStyle[parallaxItem] = itemBox(item),
                    !.wrapperTop[w] = -1 * parallaxOffset,
                    !.imageLoads = @ + 1,
                    !.loaded[w] = TRUE]

relocate(S, i) ==
  LET item == S.matrix[i]
      n == item.originalNode
      w == item.mediaWrapper
      atHome == S.wrapperParent[w] = OriginalParent(n)
      found == IF n \in S.hostSlots THEN n ELSE Null
      parallaxItem == IF atHome THEN found ELSE item.parallaxItem
      S1 == IF atHome THEN [S EXCEPT !.matrix[i].parallaxItem = found] ELSE S
  IN IF Falsy(parallaxItem) THEN [S1 EXCEPT !.threw = TRUE]
     ELSE [S1 EXCEPT !.wrapperParent[w] = OverlayParent(parallaxItem),
                     !.slotStyle[parallaxItem] = itemBox(item),
                     !.wrapperTop[w] = -1 * parallaxOffset,
                     !.imageLoads = @ + 1,
                     !.loaded[w] = TRUE]

\* the disabled branch for one item
restoreInPlace(S, i) ==
  LET item == S.matrix[i]
      w == item.mediaWrapper
      parallaxItem == item.parallaxItem
      S1 == [S EXCEPT !.wrapperTop[w] = Undefined,
                      !.mediaTransform[item.mediaElement] = NoTransform]
  IN IF Falsy(parallaxItem) THEN S1
     ELSE [S1 EXCEPT !.slotStyle[parallaxItem] = NoBox]

restore(S, i) ==
  LET item == S.matrix[i]
      w == item.mediaWrapper
      parallaxItem == item.parallaxItem
      S1 == [S EXCEPT !.wrapperParent[w] = OriginalParent(item.originalNode),
                      !.wrapperTop[w] = Undefined,
                      !.mediaTransform[item.mediaElement] = NoTransform]
  IN IF Falsy(parallaxItem) THEN S1
     ELSE [S1 EXCEPT !.slotStyle[parallaxItem] = NoBox]

RECURSIVE syncFilter(_, _)
syncFilter(S, i) ==
  IF i > Len(S.matrix) THEN S
  ELSE
    LET item == S.matrix[i]
        parallaxItem == item.parallaxItem
    IN IF ~contained[item.originalNode]
       THEN syncFilter(
              IF ~Falsy(parallaxItem) /\ parallaxItem \in S.hostSlots
              THEN [S EXCEPT !.hostSlots = @ \ {parallaxItem}] ELSE S,
              i + 1)
       ELSE
         LET en == isParallaxEnabled(S.isEditingIndex, tweakValue)
             S0 == [S EXCEPT !.enabledResult = Returned(en)]
             S1 == IF en THEN relocate(S0, i) ELSE restore(S0, i)
         IN IF S1.threw THEN S1
            ELSE syncFilter(
                   [S1 EXCEPT !.imageLoads = @ + 1,
                              !.loaded[item.mediaWrapper] = TRUE],
                   i + 1)

syncParallax(S, force) ==
  LET u == updateAllMatrixItems(S.matrix)
      S1 == [S EXCEPT !.windowHeight = InnerHeight, !.matrix = u.matrix]
  IN IF ~u.didUpdate /\ force = "false" THEN S1
     ELSE LET S2 == syncFilter(S1, 1)
              en == isParallaxEnabled(S2.isEditingIndex, tweakValue)
          IN IF S2.threw THEN S2
             ELSE IF en THEN scroll(S2, scrollY, scrollY)
                  ELSE [S2 EXCEPT !.enabledResult = Returned(en)]

\* ------------------------------------------------------------ actions
Commit(S, name) ==
  /\ matrix' = S.matrix
  /\ windowHeight' = S.windowHeight
  /\ isEditingIndex' = S.isEditingIndex
  /\ hostSlots' = S.hostSlots
  /\ wrapperParent' = S.wrapperParent
  /\ slotStyle' = S.slotStyle
  /\ slotTransform' = S.slotTransform
  /\ mediaTransform' = S.mediaTransform
  /\ wrapperTop' = S.wrapperTop
  /\ loaded' = S.loaded
  /\ threw' = S.threw
  /\ enabledResult' = S.enabledResult
  /\ imageLoads' = S.imageLoads
  /\ scrollCalls' = S.scrollCalls
  /\ op' = name
  /\ UNCHANGED indicatorVars

ParallaxInit ==
  /\ matrix = initParallax
  /\ windowHeight = Undefined
  /\ scrolling = FALSE
  /\ scrollTimeout = FALSE
  /\ isEditingIndex = FALSE
  /\ darwin = TRUE
  /\ rafScroll = 0
  /\ rafSync = TRUE
  /\ listeners = ModuleListeners
  /\ tweakValue \in TweakValues
  /\ scrollY = 0
  /\ layoutVer = 0
  /\ contained = [n \in Nodes |-> TRUE]
  /\ hostSlots \in {Nodes, Nodes \ {NItems}}
  /\ wrapperParent = [n \in Nodes |-> OriginalParent(n)]
  /\ slotStyle = [n \in Nodes |-> NoBox]
  /\ slotTransform = [n \in Nodes |-> NoTransform]
  /\ mediaTransform = [n \in Nodes |-> NoTransform]
  /\ wrapperTop = [n \in Nodes |-> Undefined]
  /\ loaded = [n \in Nodes |-> FALSE]
  /\ pointerEvents = ""
  /\ op = "none"
  /\ threw = FALSE
  /\ enabledResult = "not called"
  /\ imageLoads = 0
  /\ scrollCalls = 0

\* what no handler of the module writes
envVars == << tweakValue, scrollY, layoutVer, contained >>
loopVars == << scrolling, scrollTimeout, rafScroll, pointerEvents >>
lifeVars == << darwin, listeners >>

\* window.requestAnimationFrame(syncParallax) of init: force is the timestamp
rafSyncParallax ==
  /\ rafSync
  /\ Commit(syncParallax(Entry, "other"), "syncParallax")
  /\ rafSync' = FALSE
  /\ UNCHANGED << envVars, loopVars, lifeVars >>

\* a scroll event at page offset y
handleScroll(y) ==
  /\ "scroll" \in listeners
  /\ scrolling \/ rafScroll < MaxRaf
  /\ scrollY' = y
  /\ IF scrolling = FALSE
     THEN LET S == scroll(Entry, y, y) IN
          /\ Commit(S, "scroll")
          /\ scrolling' = TRUE
          /\ pointerEvents' = "none"
          /\ IF S.threw THEN UNCHANGED << rafScroll, scrollTimeout >>
             ELSE rafScroll' = rafScroll + 1 /\ scrollTimeout' = TRUE
     ELSE /\ Commit(Entry, "none")
          /\ scrollTimeout' = TRUE
          /\ UNCHANGED << scrolling, pointerEvents, rafScroll >>
  /\ UNCHANGED << tweakValue, layoutVer, contained, rafSync, lifeVars >>

\* an animation frame runs one requested scrollCallback
scrollCallback ==
  /\ rafScroll > 0
  /\ LET S == scroll(Entry, scrollY, scrollY) IN
       /\ Commit(S, "scroll")
       /\ rafScroll' = IF ~S.threw /\ scrolling = TRUE THEN rafScroll ELSE rafScroll - 1
  /\ UNCHANGED << envVars, scrolling, scrollTimeout, pointerEvents, rafSync, lifeVars >>

\* the 100ms timer set by handleScroll expires
scrollTimeoutKeepsPointerEvents ==
  /\ scrollTimeout
  /\ Commit(Entry, "none")
  /\ scrolling' = FALSE
  /\ scrollTimeout' = FALSE
  /\ UNCHANGED << envVars, rafScroll, rafSync, lifeVars, pointerEvents >>

scrollTimeoutFires ==
  /\ scrollTimeout
  /\ Commit(Entry, "none")
  /\ scrolling' = FALSE
  /\ pointerEvents' = "auto"
  /\ scrollTimeout' = FALSE
  /\ UNCHANGED << envVars, rafScroll, rafSync, lifeVars >>

handleIndexEditEnabled ==
  /\ "indexEditEnabled" \in listeners
  /\ Commit(syncParallax([Entry EXCEPT !.isEditingIndex = TRUE], "true"),
            "syncParallax")
  /\ UNCHANGED << envVars, loopVars, rafSync, lifeVars >>

handleIndexEditDisabled ==
  /\ "indexEditDisabled" \in listeners
  /\ Commit(syncParallax([Entry EXCEPT !.isEditingIndex = FALSE], "true"),
            "syncParallax")
  /\ UNCHANGED << envVars, loopVars, rafSync, lifeVars >>

handleIndexEditDeleted ==
  /\ "indexEditDeleted" \in listeners
  /\ Commit(syncParallax(Entry, "true"), "syncParallax")
  /\ UNCHANGED << envVars, loopVars, rafSync, lifeVars >>

handleIndexEditReorder ==
  /\ "indexEditReorder" \in listeners
  /\ Commit(syncParallax(Entry, "true"), "syncParallax")
  /\ UNCHANGED << envVars, loopVars, rafSync, lifeVars >>

\* the Tweak.watch callback, on a change of one of the five watched tweaks
tweakWatchCallback ==
  /\ "tweakWatch" \in listeners
  /\ Commit(syncParallax(Entry, "true"), "syncParallax")
  /\ UNCHANGED << envVars, loopVars, rafSync, lifeVars >>

\* resizeEnd(syncParallax): the source does not fix the argument the
\* utility passes, so force is false or anything else
resizeEndCallback(force) ==
  /\ "resizeEnd" \in listeners
  /\ Commit(syncParallax(Entry, force), "syncParallax")
  /\ UNCHANGED << envVars, loopVars, rafSync, lifeVars >>

\* Darwin's callback on a mutation of one of its targets
darwinCallback(force) ==
  /\ darwin
  /\ Commit(syncParallax(Entry, force), "syncParallax")
  /\ UNCHANGED << envVars, loopVars, rafSync, lifeVars >>

destroy ==
  /\ Commit(Entry, "none")
  /\ darwin' = FALSE
  /\ listeners' = listeners \ {"scroll", "indexEditEnabled", "indexEditDisabled",
                               "indexEditDeleted", "indexEditReorder"}
  /\ UNCHANGED << envVars, loopVars, rafSync >>

\* ------------------------------------------------------------ the page
\* the visitor scrolls while the module listens no more
pageScroll(y) ==
  /\ "scroll" \notin listeners
  /\ y # scrollY
  /\ scrollY' = y
  /\ Commit(Entry, "none")
  /\ UNCHANGED << tweakValue, layoutVer, contained, loopVars, rafSync, lifeVars >>

tweakSet(v) ==
  /\ v # tweakValue
  /\ tweakValue' = v
  /\ Commit(Entry, "none")
  /\ UNCHANGED << scrollY, layoutVer, contained, loopVars, rafSync, lifeVars >>

layoutChange(v) ==
  /\ v # layoutVer
  /\ layoutVer' = v
  /\ Commit(Entry, "none")
  /\ UNCHANGED << tweakValue, scrollY, contained, loopVars, rafSync, lifeVars >>

removeNode(n) ==
  /\ contained[n]
  /\ Cardinality({k \in Nodes : ~contained[k]}) < MaxRemoved
  /\ contained' = [contained EXCEPT ![n] = FALSE]
  /\ Commit(Entry, "none")
  /\ UNCHANGED << tweakValue, scrollY, layoutVer, loopVars, rafSync, lifeVars >>

Next ==
  \/ rafSyncParallax
  \/ \E y \in 0..MaxScroll : handleScroll(y)
  \/ scrollCallback
  \/ scrollTimeoutFires
  \/ handleIndexEditEnabled
  \/ handleIndexEditDisabled
  \/ handleIndexEditDeleted
  \/ handleIndexEditReorder
  \/ tweakWatchCallback
  \/ \E force \in {"false", "other"} : resizeEndCallback(force)
  \/ \E force \in {"false", "other"} : darwinCallback(force)
  \/ destroy
  \/ \E y \in 0..MaxScroll : pageScroll(y)
  \/ \E v \in TweakValues : tweakSet(v)
  \/ \E v \in 0..MaxLayout : layoutChange(v)
  \/ \E n \in Nodes : removeNode(n)

\* ------------------------------------------------------------ ScrollIndicator
tweaks ==
  {"tweak-index-page-scroll-indicator", "tweak-index-page-scroll-indicator-icon",
   "tweak-index-page-scroll-indicator-font", "tweak-index-page-scroll-indicator-color"}
TweakNames == tweaks \cup {"tweak-overlay-parallax-enabled"}
IndicatorListeners == {"scroll", "resize", "click", "tweakWatch"}
ElementBottoms == 1..(InnerHeight + 1)
NoScroll == [offset |-> Undefined, short |-> FALSE]

\* element.getBoundingClientRect().bottom of a layout with the page at offset y
RectBottom(b, y) == b - y

\* the constructor: bottomEdge, bindListeners(), the 1000ms show timer
IndicatorInit ==
  /\ hidden \in BOOLEAN
  /\ elementBottom \in ElementBottoms
  /\ bottomEdge = RectBottom(elementBottom, scrollY)
  /\ showTimeout = "pending"
  /\ hideTimeout = "null"
  /\ indicatorListeners = IndicatorListeners
  /\ jumpTarget = Undefined
  /\ lastSeen = NoScroll
  /\ indicatorOp = "none"

\* a scroll event at page offset y
indicatorHandleScroll(y) ==
  /\ "scroll" \in indicatorListeners
  /\ scrollY' = y
  /\ lastSeen' = [offset |-> y, short |-> ~(bottomEdge > InnerHeight)]
  /\ indicatorOp' = "handleScroll"
  /\ IF bottomEdge > InnerHeight
     THEN IF y + InnerHeight < bottomEdge
          THEN hideTimeout' = "null" /\ hidden' = FALSE
          ELSE IF hideTimeout = "null"
               THEN hideTimeout' = "pending" /\ UNCHANGED hidden
               ELSE UNCHANGED << hideTimeout, hidden >>
     ELSE hideTimeout' = "null" /\ hidden' = (y > 0)
  /\ UNCHANGED << showTimeout, bottomEdge, elementBottom, indicatorListeners,
                  jumpTarget, parallaxVars >>

\* the 500ms timer of handleScroll expires; hideTimeout keeps naming it
hideTimeoutFires ==
  /\ hideTimeout = "pending"
  /\ hidden' = TRUE
  /\ hideTimeout' = "fired"
  /\ indicatorOp' = "hideTimeout"
  /\ UNCHANGED << showTimeout, bottomEdge, elementBottom, indicatorListeners,
                  jumpTarget, lastSeen, scrollY, parallaxVars >>

\* the 1000ms timer of the constructor expires
showTimeoutFires ==
  /\ showTimeout = "pending"
  /\ hidden' = FALSE
  /\ showTimeout' = "fired"
  /\ indicatorOp' = "showTimeout"
  /\ UNCHANGED << hideTimeout, bottomEdge, elementBottom, indicatorListeners,
                  jumpTarget, lastSeen, scrollY, parallaxVars >>

indicatorHandleClick ==
  /\ "click" \in indicatorListeners
  /\ jumpTarget' = RectBottom(elementBottom, scrollY)
  /\ indicatorOp' = "handleClick"
  /\ UNCHANGED << hidden, showTimeout, hideTimeout, bottomEdge, elementBottom,
                  indicatorListeners, lastSeen, scrollY, parallaxVars >>

\* a resize event that leaves the element's bottom at b
indicatorHandleResize(b) ==
  /\ "resize" \in indicatorListeners
  /\ elementBottom' = b
  /\ bottomEdge' = scrollY + RectBottom(b, scrollY)
  /\ indicatorOp' = "handleResize"
  /\ UNCHANGED << hidden, showTimeout, hideTimeout, indicatorListeners,
                  jumpTarget, lastSeen, scrollY, parallaxVars >>

\* the Tweak.watch callback, on a change of the tweak called name
indicatorTweakWatch(name) ==
  /\ "tweakWatch" \in indicatorListeners
  /\ hidden' = IF name \in tweaks THEN FALSE ELSE hidden
  /\ indicatorOp' = "tweakWatch"
  /\ UNCHANGED << showTimeout, hideTimeout, bottomEdge, elementBottom,
                  indicatorListeners, jumpTarget, lastSeen, scrollY, parallaxVars >>

indicatorDestroy ==
  /\ indicatorListeners' = indicatorListeners \ {"scroll", "resize", "click"}
  /\ showTimeout' = "null"
  /\ hideTimeout' = "null"
  /\ indicatorOp' = "destroy"
  /\ UNCHANGED << hidden, bottomEdge, elementBottom, jumpTarget, lastSeen,
                  scrollY, parallaxVars >>

\* the visitor scrolls while ScrollIndicator listens no more
indicatorPageScroll(y) ==
  /\ "scroll" \notin indicatorListeners
  /\ y # scrollY
  /\ scrollY' = y
  /\ indicatorOp' = "none"
  /\ UNCHANGED << hidden, showTimeout, hideTimeout, bottomEdge, elementBottom,
                  indicatorListeners, jumpTarget, lastSeen, parallaxVars >>

NextIndicator ==
  \/ \E y \in 0..MaxScroll : indicatorHandleScroll(y)
  \/ hideTimeoutFires
  \/ showTimeoutFires
  \/ indicatorHandleClick
  \/ \E b \in ElementBottoms : indicatorHandleResize(b)
  \/ \E name \in TweakNames : indicatorTweakWatch(name)
  \/ indicatorDestroy
  \/ \E y \in 0..MaxScroll : indicatorPageScroll(y)

\* ------------------------------------------------------------ specifications
\* the page as Parallax finds it, ScrollIndicator constructed and left alone
Init == ParallaxInit /\ IndicatorInit /\ hidden = TRUE /\ elementBottom = 1

\* the page as ScrollIndicator finds it, Parallax constructed and left alone
InitIndicator ==
  ParallaxInit /\ tweakValue = "true" /\ hostSlots = Nodes /\ IndicatorInit

Spec == Init /\ [][Next]_allVars

SpecIndicator == InitIndicator /\ [][NextIndicator]_allVars

\* ------------------------------------------------------------ properties
domVars ==
  << matrix, hostSlots, wrapperParent, slotStyle, slotTransform, mediaTransform,
     wrapperTop, loaded >>

ModeDisabled == isEditingIndex \/ tweakValue # "true"
Destroyed == darwin = FALSE

\* C1: every tracked item has its mediaWrapper under exactly one of its
\* originalNode and the overlay node recorded as its parallaxItem, in every
\* state and so after every syncParallax.
ParentingInvariant ==
  \A i \in DOMAIN matrix :
    LET item == matrix[i]
        underOriginal == wrapperParent[item.mediaWrapper] = OriginalParent(item.originalNode)
        underOverlay == /\ ~Falsy(item.parallaxItem)
                        /\ wrapperParent[item.mediaWrapper] = OverlayParent(item.parallaxItem)
    IN underOriginal # underOverlay

\* a sync has left one wrapper under its overlay node and has brought
\* another, relocated earlier, back under its original node
ParentingWitness ==
  /\ op = "syncParallax"
  /\ \E i \in DOMAIN matrix :
       wrapperParent[matrix[i].mediaWrapper] = OverlayParent(matrix[i].parallaxItem)
  /\ \E j \in DOMAIN matrix :
       /\ ~Falsy(matrix[j].parallaxItem)
       /\ wrapperParent[matrix[j].mediaWrapper] = OriginalParent(matrix[j].originalNode)

\* C2: a syncParallax that completes leaves no item tracked whose
\* originalNode is out of the document.
RemovedItemDropped ==
  (op = "syncParallax" /\ ~threw) =>
    \A i \in DOMAIN matrix : contained[matrix[i].originalNode]

\* C3: once destroy() has returned no step writes the tracked collection or
\* a style, and no timer or animation frame of the module is left to run.
QuietAfterDestroy ==
  [][Destroyed => /\ UNCHANGED << domVars, windowHeight, pointerEvents, scrolling >>
                  /\ ~scrollTimeout' /\ rafScroll' = 0 /\ ~rafSync']_vars

\* C4: after destroy() no listener registered by the module remains, the
\* mutation watcher is stopped, and a repeated destroy() raises nothing.
NoListenerAfterDestroy ==
  Destroyed => (listeners = {} /\ ~threw)

\* C5: no operation of Parallax ends in an uncaught error.
NoUncaughtError == threw = FALSE

\* C6: at most one animation-frame request of scrollCallback is outstanding.
SingleScrollLoop == rafScroll <= 1

\* C7: a scroll() that runs while parallax is disabled writes no style and
\* leaves the tracked collection as it was.
DisabledScrollWritesNothing ==
  [][(op' = "scroll" /\ ModeDisabled) => (UNCHANGED domVars /\ ~threw')]_vars

\* scroll() has run in edit mode, the configuration flag reading 'true',
\* over a collection that holds transforms of an earlier frame
DisabledScrollWitness ==
  /\ op = "scroll"
  /\ isEditingIndex /\ tweakValue = "true"
  /\ \E n \in Nodes : slotTransform[n] # NoTransform

\* C8: whenever isParallaxEnabled() was called, it returned false if the
\* edit-mode flag is set, and otherwise whether the configuration flag
\* reads 'true', as flag and configuration are at the call.
ModeResolverCurrent ==
  /\ enabledResult = "true" => (~isEditingIndex /\ tweakValue = "true")
  /\ enabledResult = "false" => (isEditingIndex \/ tweakValue # "true")
  /\ op = "scroll" => enabledResult # "not called"

\* the call returned false in edit mode although the configuration reads 'true'
ModeResolverWitness ==
  enabledResult = "false" /\ isEditingIndex /\ tweakValue = "true"
ScrollFrameTransforms ==
  (op = "scroll" /\ enabledResult = "true") =>
    \A i \in DOMAIN matrix :
      LET item == matrix[i]
          inView == /\ windowHeight # Undefined /\ item.top # Undefined
                    /\ scrollY + windowHeight > item.top
                    /\ scrollY < item.bottom
      IN /\ ~Falsy(item.parallaxItem)
         /\ slotTransform[item.parallaxItem] =
              IF inView
              THEN [kind |-> "translatey", num |-> -scrollY, den |-> 1]
              ELSE [kind |-> "translate3d", num |-> -(item.width + item.left), den |-> 1]

\* C11: once the scroll events stop, the loop stops for good.  scrolling is
\* reset by the 100ms timer alone, so whenever scrolling is true that timer
\* must be pending; a state with scrolling true and no timer keeps scrolling
\* true for as long as no further scroll event arrives.
ScrollLoopCanStop == scrolling => scrollTimeout

\* C12: from the first scroll event on, the document's pointer-events is
\* 'none' exactly when scrolling is true and 'auto' exactly when it is
\* false, destroyed or not; before the first scroll event it is untouched
\* and scrolling is false.
PointerEventsFollowScrolling ==
  /\ pointerEvents = "" => scrolling = FALSE
  /\ pointerEvents # "" =>
       /\ (pointerEvents = "none") <=> (scrolling = TRUE)
       /\ (pointerEvents = "auto") <=> (scrolling = FALSE)

\* destroy() came with the loop still running and the timer restored the page
PointerRestoredWitness ==
  Destroyed /\ scrolling = FALSE /\ pointerEvents = "auto" /\ rafScroll > 0

\* item i sits in the overlay
Relocated(i) ==
  LET item == matrix[i]
      n == item.originalNode
      w == item.mediaWrapper
  IN /\ item.parallaxItem = n
     /\ n \in hostSlots
     /\ wrapperParent[w] = OverlayParent(n)
     /\ slotStyle[n] = itemBox(item)
     /\ wrapperTop[w] = -1 * parallaxOffset

InDocument == {i \in DOMAIN matrix : contained[matrix[i].originalNode]}

\* C13: after a syncParallax that was not short-circuited and ran with the
\* mode enabled, every tracked item whose originalNode is in the document
\* has its wrapper under the slot with its id, that slot recorded as its
\* parallaxItem and styled with the cached geometry, and the wrapper's top
\* at -parallaxOffset.
EnabledSyncRelocates ==
  (op = "syncParallax" /\ enabledResult = "true") =>
     \A i \in InDocument : Relocated(i)

\* item i sits in its original node
Restored(i) ==
  LET item == matrix[i]
      w == item.mediaWrapper
  IN /\ wrapperParent[w] = OriginalParent(item.originalNode)
     /\ wrapperTop[w] = Undefined
     /\ ~Falsy(item.parallaxItem) => slotStyle[item.parallaxItem] = NoBox

\* C14: after a syncParallax that was not short-circuited and ran with the
\* mode disabled (the forced syncs of the index-edit-enabled event and of the
\* tweak change notification among them), every tracked item whose
\* originalNode is in the document has its wrapper under the originalNode,
\* the positioning styles of its overlay node cleared and its wrapper's top
\* cleared.
DisabledSyncRestores ==
  (op = "syncParallax" /\ enabledResult = "false") =>
     \A i \in InDocument : Restored(i)

\* the index-edit-enabled sync brought back an item that was in the overlay
DisabledSyncWitness ==
  /\ op = "syncParallax" /\ enabledResult = "false"
  /\ isEditingIndex /\ tweakValue = "true"
  /\ \E i \in InDocument : ~Falsy(matrix[i].parallaxItem) /\ Restored(i)

\* the callers of syncParallax by the force they pass
ForceFalse == resizeEndCallback("false") \/ darwinCallback("false")
ForceOther ==
  \/ rafSyncParallax \/ handleIndexEditEnabled \/ handleIndexEditDisabled
  \/ handleIndexEditDeleted \/ handleIndexEditReorder \/ tweakWatchCallback
  \/ resizeEndCallback("other") \/ darwinCallback("other")
NoGeometryChange == ~updateAllMatrixItems(matrix).didUpdate

\* the relocation pass went over every tracked item
PassRan ==
  /\ \A i \in InDocument : loaded[matrix[i].mediaWrapper]
  /\ imageLoads >= Cardinality(InDocument)

\* C15: syncParallax(false) without a geometry change writes nothing to the
\* DOM, loads no image and does not call scroll; every other syncParallax
\* runs the relocation pass over all tracked items.
SyncShortCircuitContract ==
  [][/\ (ForceFalse /\ NoGeometryChange) =>
          /\ UNCHANGED domVars
          /\ imageLoads' = 0 /\ scrollCalls' = 0 /\ threw' = FALSE
          /\ enabledResult' = "not called"
     /\ (ForceOther \/ (ForceFalse /\ ~NoGeometryChange)) => PassRan']_vars

\* C16: a syncParallax that relocates with the mode enabled ends with one
\* call of scroll at the current offset, so that on return the overlay node
\* of every in-view item is translated by minus that offset; with the mode
\* disabled it does not call scroll.
SyncEndsWithScroll ==
  (op = "syncParallax" /\ enabledResult # "not called") =>
    IF enabledResult = "true"
    THEN /\ scrollCalls = 1
         /\ \A i \in DOMAIN matrix :
              InView(matrix[i], scrollY, windowHeight) =>
                /\ ~Falsy(matrix[i].parallaxItem)
                /\ slotTransform[matrix[i].parallaxItem] = inViewItemTransform(scrollY)
    ELSE scrollCalls = 0

\* t is translatey(p * parallaxOffset) for
\* p = 1 - ((top + height * focalPoint - scrollTop) / wh), as fractions
IsProportionalTranslation(t, item, scrollTop, wh) ==
  LET fp == item.focalPoint
      \* top + height * focalPoint - scrollTop = distNum / fp.den
      distNum == item.top * fp.den + item.height * fp.num - scrollTop * fp.den
      pNum == wh * fp.den - distNum
      pDen == wh * fp.den
  IN /\ t.kind = "translatey"
     /\ t.den # 0
     /\ t.num * pDen = parallaxOffset * pNum * t.den

\* the forEach of scroll got as far as item i
FrameReached(i) == \A j \in 1..(i - 1) : ~Falsy(matrix[j].parallaxItem)

IndicatorDestroyed == "scroll" \notin indicatorListeners

\* C18: with the bottom edge within the viewport height, once a scroll event
\* has been handled the indicator is hidden exactly when the offset that
\* event saw was above 0, whatever fires afterwards (the 1000ms show timer
\* included).
HiddenFollowsLastScroll ==
  (lastSeen # NoScroll /\ lastSeen.short /\ bottomEdge <= InnerHeight) =>
     (hidden <=> lastSeen.offset > 0)

\* C19: with the bottom edge beyond the viewport height, a scroll event that
\* finds the viewport bottom at or past the edge while the indicator is
\* visible leaves a hide timer pending, whatever happened before.
HideTimerArmed ==
  (/\ indicatorOp = "handleScroll" /\ ~lastSeen.short
   /\ lastSeen.offset + InnerHeight >= bottomEdge
   /\ ~hidden) => hideTimeout = "pending"

\* C20: once destroy() has returned, no step changes the element's 'hidden'
\* class, both timers are cancelled and the three listeners are removed;
\* destroy() can be called again.
IndicatorQuietAfterDestroy ==
  [][IndicatorDestroyed =>
       /\ hidden' = hidden
       /\ showTimeout' = "null" /\ hideTimeout' = "null"
       /\ IndicatorDestroyed'
       /\ ENABLED indicatorDestroy]_allVars
====
